---------------------------- MODULE Spec2Model ----------------------------
(***************************************************************************)
(* Scotland Yard: the move strategies (mrx.py, heuristic.py,               *)
(* detectives.py) driven by the turn engine.                               *)
(*                                                                         *)
(* Players are indexed as in the engine's player list: 0 is Mr. X, 1..4    *)
(* are the detectives; a player's name is its index.  A move and a history *)
(* entry are the pair (station, transport), written as a record.           *)
(*                                                                         *)
(* Scores are the code's floating point values taken as exact rationals    *)
(* and scaled to integers by a factor that is the same for every score     *)
(* compared within one call (see evaluate_move, evaluate_position, Blend). *)
(***************************************************************************)
EXTENDS Integers, Sequences, FiniteSets, TLC

VARIABLES
    pos,        \* pos[i]: Player.pos of player i
    tickets,    \* tickets[i]: Player.tickets of player i (kind -> count)
    x_history,  \* Mr. X's moves so far, a sequence of [pos, transport]
    current,    \* the engine's turn pointer: index of the player due to move
    round,      \* number of Mr. X plies made so far (the 1-indexed round in play)
    plies,      \* number of plies played (bounds the run)
    turn,       \* the detective strategy module's global  turn
    agent,      \* the detective strategy module's global  agent
    strategy,   \* the detective strategy wired in by main: "heuristic" | "search"
    halted,     \* the engine's fatal error: a strategy returned no move
    lastCall    \* what the last strategy / function call saw and returned

vars == <<pos, tickets, x_history, current, round, plies, turn, agent,
          strategy, halted, lastCall>>

-----------------------------------------------------------------------------
(* Bounds of the model *)

MaxPlies == 13
MaxStartTaxi == 3
MaxTurn == 25
MaxHistory == 25
MaxEntries == 3

(* Program constants *)

INFINITY == 2000000000
MAX_DEPTH == 2
NumPlayers == 5
InitialTurn == 1
InitialAgent == 0

reveal_turns == <<3, 8, 13, 18, 24>>

-----------------------------------------------------------------------------
(* Board graph data: station -> transport mode -> list of neighbours.      *)
(* Every station has taxi links and every neighbour is a station (closed,  *)
(* symmetric), as on the printed board.                                    *)

boardmap ==
    1 :> [taxi |-> <<2, 3>>, bus |-> <<4>>] @@
    2 :> [taxi |-> <<1, 3, 5>>] @@
    3 :> [taxi |-> <<1, 2, 4, 6>>, bus |-> <<5>>] @@
    4 :> [taxi |-> <<3, 7>>, bus |-> <<1, 7>>, underground |-> <<7>>] @@
    5 :> [taxi |-> <<2, 6>>, bus |-> <<3>>] @@
    6 :> [taxi |-> <<3, 5, 7>>] @@
    7 :> [taxi |-> <<4, 6>>, bus |-> <<4>>, underground |-> <<4>>]

Stations == DOMAIN boardmap

\* Ticket kinds in the insertion order of a Player's tickets dict.
TicketKinds == <<"taxi", "bus", "underground", "black">>

KindSet == {TicketKinds[k] : k \in DOMAIN TicketKinds}

Players == 0 .. (NumPlayers - 1)
Detectives == 1 .. (NumPlayers - 1)

NoMove == [pos |-> 0, transport |-> "none"]

Range(s) == {s[k] : k \in DOMAIN s}

Min(S) == CHOOSE m \in S : \A n \in S : m <= n

Max(S) == CHOOSE m \in S : \A n \in S : m >= n

RECURSIVE SortedSeq(_)
\* The elements of a finite set of integers in increasing order.
SortedSeq(S) ==
    IF S = {} THEN <<>> ELSE <<Min(S)>> \o SortedSeq(S \ {Min(S)})

RECURSIVE Sum(_, _)
\* Sum of f[x] over the finite set DOMAIN f restricted to S.
Sum(f, S) ==
    IF S = {} THEN 0
    ELSE LET x == CHOOSE y \in S : TRUE IN f[x] + Sum(f, S \ {x})


-----------------------------------------------------------------------------
(* Board queries *)

\* heuristic.py / detectives.py get_valid_transport_moves:
\* set(boardmap[pos].get(transport_type, []))
get_valid_transport_moves(p, transport_type) ==
    IF transport_type \in DOMAIN boardmap[p]
    THEN Range(boardmap[p][transport_type])
    ELSE {}

\* boardmap[pos].get(transport_type, []) as the list it is
TransportList(p, transport_type) ==
    IF transport_type \in DOMAIN boardmap[p]
    THEN boardmap[p][transport_type]
    ELSE <<>>

(* nx.Graph(boardmap): networkx converts a dict by trying dict-of-dicts     *)
(* first; the inner values here are lists of stations, not attribute dicts, *)
(* so that conversion raises and networkx falls back to dict-of-lists,      *)
(* which iterates each inner dict, i.e. its KEYS.  The graph built has an   *)
(* edge station -- mode name for every mode key of every station, and no    *)
(* station -- station edge.  Two distinct stations are two edges apart when *)
(* they have a mode key in common.  NxNeighbours(a) is the set of stations  *)
(* at two edges from a in that graph.                                       *)
NxNeighbours ==
    [a \in Stations |->
        {b \in Stations : b # a /\ (DOMAIN boardmap[a]) \cap (DOMAIN boardmap[b]) # {}}]

\* The graph the board table describes: station -- station links of every mode.
LinkNeighbours ==
    [a \in Stations |->
        UNION {Range(boardmap[a][m]) : m \in DOMAIN boardmap[a]}
          \cup {b \in Stations :
                  \E m \in DOMAIN boardmap[b] : a \in Range(boardmap[b][m])}]

RECURSIVE BfsDepth(_, _, _, _, _)
\* Breadth-first search over the adjacency nbrs: number of steps from the
\* frontier to target, or INFINITY when target is not reachable.
BfsDepth(nbrs, frontier, seen, target, d) ==
    IF target \in frontier THEN d
    ELSE IF (UNION {nbrs[a] : a \in frontier}) \subseteq seen THEN INFINITY
    ELSE BfsDepth(nbrs, (UNION {nbrs[a] : a \in frontier}) \ seen,
                  seen \cup UNION {nbrs[a] : a \in frontier}, target, d + 1)

\* len(nx.shortest_path(nx.Graph(boardmap), pos1, pos2)) - 1 for all pairs;
\* INFINITY stands for NetworkXNoPath.
TwoEdgesPerHop(hops) == IF hops = INFINITY THEN INFINITY ELSE 2 * hops

NxPathTable ==
    [a \in Stations |-> [b \in Stations |->
        TwoEdgesPerHop(BfsDepth(NxNeighbours, {a}, {a}, b, 0))]]

\* detectives.py get_shortest_path_length (the lru_cache changes no result)
get_shortest_path_length(pos1, pos2) == NxPathTable[pos1][pos2]

\* Reference: edges on a shortest path over the station -- station links.
LinkPathTable ==
    [a \in Stations |-> [b \in Stations |->
        BfsDepth(LinkNeighbours, {a}, {a}, b, 0)]]

-----------------------------------------------------------------------------
(* Possible-location reconstruction *)

\* Python's  lst[-n:] : the whole list when n = 0, the last n entries when
\* 0 < n, the entries from index -n on when n < 0.
SliceLast(lst, n) ==
    IF n = 0 THEN lst
    ELSE IF n > 0 THEN SubSeq(lst, Max({1, Len(lst) - n + 1}), Len(lst))
    ELSE SubSeq(lst, 1 - n, Len(lst))

RECURSIVE Propagate(_, _)
\* the loop body of get_possible_locations over the entries it is given
Propagate(possible_nodes, entries) ==
    IF entries = <<>> THEN possible_nodes
    ELSE Propagate(
            UNION {get_valid_transport_moves(node, Head(entries).transport)
                     : node \in possible_nodes},
            Tail(entries))

\* heuristic.py / detectives.py get_possible_locations
get_possible_locations(history, last_known_pos, moves_since_reveal) ==
    Propagate({last_known_pos}, SliceLast(history, moves_since_reveal))

\* The reveal turn selected by play_move: the schedule entry, or 0 for none.
\* (turn >= 3 and x_history; max over the schedule indices whose entry is
\* <= turn; start_index = entry - 1 must be < len(x_history).)
RevealAt(last_reveal_index, history) ==
    IF reveal_turns[last_reveal_index] - 1 < Len(history)
    THEN reveal_turns[last_reveal_index] ELSE 0

\* the schedule indices passed, with  <  for  <=
PassedRevealsStrict(t) == {k \in DOMAIN reveal_turns : reveal_turns[k] < t}

PassedReveals(t) == {k \in DOMAIN reveal_turns : reveal_turns[k] <= t}

SelectedReveal(t, history) ==
    IF t >= 3 /\ history # <<>>
    THEN IF PassedReveals(t) = {} THEN 0
         ELSE RevealAt(Max(PassedReveals(t)), history)
    ELSE 0

\* play_move's possible_x_locations: the whole board unless a reveal applies.
\* reveal is the selected reveal turn, 0 for none; start_index = reveal - 1,
\* last_known_pos = x_history[start_index][0],
\* moves_since_reveal = len(x_history) - start_index - 1
LocationsFrom(reveal, history) ==
    IF reveal = 0 THEN Stations
    ELSE get_possible_locations(history, history[reveal].pos, Len(history) - reveal)

PossibleXLocations(t, history) == LocationsFrom(SelectedReveal(t, history), history)

-----------------------------------------------------------------------------
(* Move generation.  A roster is a function from the indices of the list   *)
(* passed as  detectives  to [name, pos, tickets]; tickets is a reference  *)
(* into a heap of ticket dicts (see the search below).                     *)

RECURSIVE ConcatAll(_)
ConcatAll(seqs) ==
    IF seqs = <<>> THEN <<>> ELSE Head(seqs) \o ConcatAll(Tail(seqs))

AsMoves(stationList, transport) ==
    [k \in DOMAIN stationList |-> [pos |-> stationList[k], transport |-> transport]]

\* the stations of the list that are not occupied, as moves by transport
MovesVia(stationList, transport, occupied) ==
    LET keep(p) == p \notin occupied
    IN  AsMoves(SelectSeq(stationList, keep), transport)

\* get_valid_moves without the test  next_pos not in detective_positions
get_valid_moves_unfiltered(detective_pos, detective_tickets, positions) ==
    ConcatAll(
        [k \in DOMAIN TicketKinds |->
            IF detective_tickets[TicketKinds[k]] <= 0 THEN <<>>
            ELSE MovesVia(
                    SortedSeq(get_valid_transport_moves(detective_pos, TicketKinds[k])),
                    TicketKinds[k], {})])

\* heuristic.py get_valid_moves.  Ticket kinds are visited in dict order; the
\* neighbours of a mode are a set of small integers, iterated in increasing
\* order.
heuristic_get_valid_moves(detective_pos, detective_tickets, positions) ==
    ConcatAll(
        [k \in DOMAIN TicketKinds |->
            IF detective_tickets[TicketKinds[k]] <= 0 THEN <<>>
            ELSE MovesVia(
                    SortedSeq(get_valid_transport_moves(detective_pos, TicketKinds[k])),
                    TicketKinds[k], positions)])

\* detectives.py get_valid_moves.  Neighbours are visited in board-list order;
\* the kinds black and 2x are skipped.
search_get_valid_moves(detective_pos, detective_tickets, positions) ==
    ConcatAll(
        [k \in DOMAIN TicketKinds |->
            IF \/ detective_tickets[TicketKinds[k]] <= 0
               \/ TicketKinds[k] \in {"black", "2x"}
               \/ TicketKinds[k] \notin DOMAIN boardmap[detective_pos]
            THEN <<>>
            ELSE MovesVia(boardmap[detective_pos][TicketKinds[k]],
                          TicketKinds[k], positions)])

-----------------------------------------------------------------------------
(* Scoring.  positions is {d.pos for d in detectives} of the roster passed. *)

\* 1 / (1 + distance) as the integer DistScale / (1 + distance); exact for
\* the distances 0, 2 and 4, and 0 for INFINITY.
DistScale == 3 * 5

InvDist(d) == DistScale \div (1 + d)

\* 10 / (1 + current_distance), times 1.5 if this detective would be closest,
\* times 0.5 if the station is occupied; scaled by 4 * DistScale / 10.
PositionScore(current_distance, min_detective_distance, overlapping) ==
    InvDist(current_distance)
      * (IF current_distance <= min_detective_distance THEN 3 ELSE 2)
      * (IF overlapping THEN 1 ELSE 2)

\* heuristic.py evaluate_move, times  4 * DistScale * len(possible) / 10.
evaluate_move(p, positions, possible_x_locations) ==
    IF possible_x_locations = {} THEN 0
    ELSE Sum([x_pos \in possible_x_locations |->
                PositionScore(
                    get_shortest_path_length(p, x_pos),
                    Min({get_shortest_path_length(d, x_pos) : d \in positions}),
                    p \in positions)],
             possible_x_locations)

\* number of distinct transports among the last three history entries
Transports(entries) == {entries[k].transport : k \in DOMAIN entries}

TransportVariety(history) == Cardinality(Transports(SliceLast(history, 3)))

\* detectives.py calculate_probability, times  45 * len(possible_nodes).
calculate_probability(node, possible_nodes, positions, history) ==
    IF node \notin possible_nodes THEN 0
    ELSE LET min_detective_distance ==
                 Min({get_shortest_path_length(d, node) : d \in positions})
             escape_routes ==
                 Cardinality({t \in {"taxi", "bus", "underground"} :
                                t \in DOMAIN boardmap[node] /\ boardmap[node][t] # <<>>})
         IN  (5 + min_detective_distance)
               * (3 + escape_routes)
               * (IF history # <<>> THEN 3 + TransportVariety(history) ELSE 3)

\* detectives.py evaluate_position, times
\* 45 * len(possible) * DistScale * 20 * 2 / 10.
evaluate_position(p, positions, possible_x_locations, history) ==
    IF possible_x_locations = {} THEN 0
    ELSE Sum([x_pos \in possible_x_locations |->
                LET prob == calculate_probability(x_pos, possible_x_locations,
                                                  positions, history)
                    distance == get_shortest_path_length(p, x_pos)
                    coverage ==
                        Cardinality(UNION {Range(TransportList(p, t))
                                             : t \in {"taxi", "bus", "underground"}})
                    team == \E d_pos \in positions \ {p} :
                                get_shortest_path_length(d_pos, x_pos) <= 2
                IN  prob * InvDist(distance) * (20 + coverage)
                      * (IF team THEN 3 ELSE 2)],
             possible_x_locations)

-----------------------------------------------------------------------------
(* Alpha-beta search.  The heap is the sequence of ticket dicts alive; a    *)
(* Player holds a reference (an index) to its dict.  The real players'      *)
(* dicts are heap[1 .. NumPlayers], player i at reference i + 1.            *)

\* new_tickets = detective.tickets : the same dict, not a copy
DictAlias(heap, ref) == [heap |-> heap, ref |-> ref]

\* detective.tickets.copy(): a fresh dict with the same contents
DictCopy(heap, ref) ==
    [heap |-> Append(heap, heap[ref]), ref |-> Len(heap) + 1]

\* new_tickets = copy; new_tickets[transport] -= 1; Player(new_tickets, new_pos, name)
WithCopy(detective, move, c) ==
    [heap   |-> [c.heap EXCEPT ![c.ref][move.transport] = @ - 1],
     player |-> [name |-> detective.name, pos |-> move.pos, tickets |-> c.ref]]

Hypothetical(detective, move, heap) ==
    WithCopy(detective, move, DictCopy(heap, detective.tickets))

PositionsOf(roster) == {roster[i].pos : i \in DOMAIN roster}

\* Scores inside the search are further scaled by 10 ^ MAX_DEPTH so that
\* 0.7 * immediate + 0.3 * future stays an integer at both levels.
Unit == 10 * 10

Blend(immediate_score, future_score) ==
    7 * (Unit \div 10) * immediate_score + (3 * future_score) \div 10

\* The roster with the hypothetical detective substituted by name.
Substitute(detectives, detective, new_detective) ==
    [j \in DOMAIN detectives |->
        IF detectives[j].name = detective.name THEN new_detective
        ELSE detectives[j]]

\* The context of the recursive call made for the hypothetical detective.
ChildCtx(ctx, new_detective) ==
    [ctx EXCEPT !.detective = new_detective,
                !.depth = @ - 1,
                !.maximizing = ~@,
                !.detectives = Substitute(ctx.detectives, ctx.detective, new_detective)]

\* The end of the loop body: the best move so far and the new alpha / beta.
Accumulate(ctx, move, acc, eval_score, heap) ==
    [eval  |-> IF ctx.maximizing
               THEN (IF eval_score > acc.eval THEN eval_score ELSE acc.eval)
               ELSE (IF eval_score < acc.eval THEN eval_score ELSE acc.eval),
     move  |-> IF ctx.maximizing
               THEN (IF eval_score > acc.eval THEN move ELSE acc.move)
               ELSE (IF eval_score < acc.eval THEN move ELSE acc.move),
     alpha |-> IF ctx.maximizing /\ eval_score > acc.alpha
               THEN eval_score ELSE acc.alpha,
     beta  |-> IF ~ctx.maximizing /\ eval_score < acc.beta
               THEN eval_score ELSE acc.beta,
     heap  |-> heap]

\* The loop body after the recursive call has returned  future :
\* immediate_score, eval_score = 0.7 * immediate + 0.3 * future, and the rest.
LoopUpdate(ctx, move, acc, new_detective, future) ==
    Accumulate(ctx, move, acc,
        Blend(evaluate_position(move.pos,
                  PositionsOf(Substitute(ctx.detectives, ctx.detective, new_detective)),
                  ctx.possible_nodes, ctx.x_history),
              future.score),
        future.heap)

SearchResult(acc) == [score |-> acc.eval, move |-> acc.move, heap |-> acc.heap]

\* max_eval = -INFINITY (min_eval = INFINITY), best_move = None
StartAcc(ctx, alpha, beta, heap) ==
    [eval  |-> IF ctx.maximizing THEN -INFINITY ELSE INFINITY,
     move  |-> NoMove, alpha |-> alpha, beta |-> beta, heap |-> heap]

\* if depth == 0 or not valid_moves
Terminal(ctx) == ctx.depth = 0 \/ ctx.valid_moves = <<>>

\* score = evaluate_position(detective.pos, ...); return score, None
SearchLeaf(ctx, heap) ==
    [score |-> Unit * evaluate_position(ctx.detective.pos,
                                        PositionsOf(ctx.detectives),
                                        ctx.possible_nodes, ctx.x_history),
     move  |-> NoMove,
     heap  |-> heap]

(* alpha_beta_search is recursive in depth; play_move starts it at          *)
(* MAX_DEPTH = 2.  The recursion is written out level by level: SearchCall2 *)
(* is the call at the root, SearchCall1 the calls it makes, SearchCall0 the *)
(* calls those make.  Each level is the same code: the terminal test, then  *)
(* the loop over the SAME valid_moves with the loop body LoopUpdate.        *)
(* ctx: detective, depth, maximizing, possible_nodes, detectives,           *)
(* valid_moves, x_history, prune (whether the  beta <= alpha  break is      *)
(* taken).                                                                  *)

SearchCall0(ctx, alpha, beta, heap) == SearchLeaf(ctx, heap)

Recurse1(ctx, move, acc, hyp) ==
    LoopUpdate(ctx, move, acc, hyp.player,
               SearchCall0(ChildCtx(ctx, hyp.player), acc.alpha, acc.beta, hyp.heap))

LoopBody1(ctx, i, acc) ==
    Recurse1(ctx, ctx.valid_moves[i], acc,
             Hypothetical(ctx.detective, ctx.valid_moves[i], acc.heap))

RECURSIVE SearchLoop1(_, _, _)
RECURSIVE AfterMove1(_, _, _)

\* for move in valid_moves, from the i-th move on
SearchLoop1(ctx, i, acc) ==
    IF i > Len(ctx.valid_moves) THEN SearchResult(acc)
    ELSE AfterMove1(ctx, i, LoopBody1(ctx, i, acc))

\* if beta <= alpha: break
AfterMove1(ctx, i, acc2) ==
    IF acc2.beta <= acc2.alpha /\ ctx.prune THEN SearchResult(acc2)
    ELSE SearchLoop1(ctx, i + 1, acc2)

SearchCall1(ctx, alpha, beta, heap) ==
    IF Terminal(ctx) THEN SearchLeaf(ctx, heap)
    ELSE SearchLoop1(ctx, 1, StartAcc(ctx, alpha, beta, heap))

Recurse2(ctx, move, acc, hyp) ==
    LoopUpdate(ctx, move, acc, hyp.player,
               SearchCall1(ChildCtx(ctx, hyp.player), acc.alpha, acc.beta, hyp.heap))

LoopBody2(ctx, i, acc) ==
    Recurse2(ctx, ctx.valid_moves[i], acc,
             Hypothetical(ctx.detective, ctx.valid_moves[i], acc.heap))

RECURSIVE SearchLoop2(_, _, _)
RECURSIVE AfterMove2(_, _, _)

\* for move in valid_moves, from the i-th move on
SearchLoop2(ctx, i, acc) ==
    IF i > Len(ctx.valid_moves) THEN SearchResult(acc)
    ELSE AfterMove2(ctx, i, LoopBody2(ctx, i, acc))

\* if beta <= alpha: break
AfterMove2(ctx, i, acc2) ==
    IF acc2.beta <= acc2.alpha /\ ctx.prune THEN SearchResult(acc2)
    ELSE SearchLoop2(ctx, i + 1, acc2)

SearchCall2(ctx, alpha, beta, heap) ==
    IF Terminal(ctx) THEN SearchLeaf(ctx, heap)
    ELSE SearchLoop2(ctx, 1, StartAcc(ctx, alpha, beta, heap))

SearchCtx(detective, depth, maximizing, possible_nodes, detectives, valid_moves, history, prune) ==
    [detective |-> detective, depth |-> depth, maximizing |-> maximizing,
     possible_nodes |-> possible_nodes, detectives |-> detectives,
     valid_moves |-> valid_moves, x_history |-> history, prune |-> prune]

\* detectives.py alpha_beta_search for depth <= MAX_DEPTH; returns
\* [score, move, heap].
alpha_beta_search(detective, depth, alpha, beta, maximizing, possible_nodes, detectives, valid_moves, history, heap) ==
    SearchCall2(SearchCtx(detective, depth, maximizing, possible_nodes, detectives,
                          valid_moves, history, TRUE),
                alpha, beta, heap)

\* The same recursion with the  beta <= alpha  cut-offs removed.
exhaustive_search(detective, depth, alpha, beta, maximizing, possible_nodes, detectives, valid_moves, history, heap) ==
    SearchCall2(SearchCtx(detective, depth, maximizing, possible_nodes, detectives,
                          valid_moves, history, FALSE),
                alpha, beta, heap)

-----------------------------------------------------------------------------
(* play_move of the three strategies.  Each is given the mover's index, the *)
(* full player list (stations ps, ticket dicts tk), the history and the     *)
(* module's turn counter as already advanced by the call.                   *)

AllPositions(ps) == {ps[j] : j \in DOMAIN ps}

RECURSIVE HeuristicLoop(_, _, _, _, _)
\* for move in valid_moves: if score > best_score: best_score, best_move = ...
HeuristicLoop(valid_moves, scores, i, best_score, best_move) ==
    IF i > Len(valid_moves) THEN best_move
    ELSE IF scores[i] > best_score
         THEN HeuristicLoop(valid_moves, scores, i + 1, scores[i], valid_moves[i])
         ELSE HeuristicLoop(valid_moves, scores, i + 1, best_score, best_move)

RECURSIVE HeuristicLoopLast(_, _, _, _, _)
\* the loop with  score >= best_score  for  score > best_score
HeuristicLoopLast(valid_moves, scores, i, best_score, best_move) ==
    IF i > Len(valid_moves) THEN best_move
    ELSE IF scores[i] >= best_score
         THEN HeuristicLoopLast(valid_moves, scores, i + 1, scores[i], valid_moves[i])
         ELSE HeuristicLoopLast(valid_moves, scores, i + 1, best_score, best_move)

\* the selection by that loop
heuristic_choice_last(valid_moves, scores) ==
    {HeuristicLoopLast(valid_moves, scores, 1, -INFINITY, NoMove)}

\* the selection with  best_score = 0.0  at the start and no fallback
heuristic_choice_bare(valid_moves, scores) ==
    {HeuristicLoop(valid_moves, scores, 1, 0, NoMove)}

\* heuristic.py play_move, lines 114-124: the moves the call may return
\* (random.choice is any member of the list).
heuristic_choice(valid_moves, scores) ==
    LET best_move == HeuristicLoop(valid_moves, scores, 1, -INFINITY, NoMove)
    IN  IF best_move # NoMove THEN {best_move} ELSE Range(valid_moves)

\* What a play_move call gives back: the candidates it generated, the
\* possible-location set and reveal turn it used, the scores it compared
\* (none for a strategy that compares none), the moves it may return, the
\* real players' ticket dicts as the call leaves them and the ticket dicts of
\* the hypothetical players the call constructed.
CallResult(valid_moves, possible, reveal, scores, returns, tk, hypothetical) ==
    [valid_moves |-> valid_moves, possible |-> possible, reveal |-> reveal,
     scores |-> scores, returns |-> returns, tickets |-> tk,
     hypothetical |-> hypothetical]

(* The scores play_move compares are floats: sums of the per-location terms  *)
(* in the iteration order of the location set.  Two scores whose exact      *)
(* values differ compare as the exact values do; two scores whose exact     *)
(* values are equal are equal floats when they are computed for the same    *)
(* station or are sums of fewer than three terms, and otherwise may differ  *)
(* in the last bits either way (the same terms are added in a different     *)
(* order).  rounding[station] in {0, 1} is that last-bit outcome: the       *)
(* computed score of a move is twice its exact score plus rounding of its   *)
(* destination.                                                             *)
Destinations(valid_moves) == {valid_moves[k].pos : k \in DOMAIN valid_moves}

Roundings(valid_moves, possible) ==
    IF Cardinality(possible) >= 3
    THEN [Destinations(valid_moves) -> {0, 1}]
    ELSE {[station \in Destinations(valid_moves) |-> 0]}

\* the exact score of every candidate move
ExactScores(valid_moves, positions, possible) ==
    [k \in DOMAIN valid_moves |->
        evaluate_move(valid_moves[k].pos, positions, possible)]

\* the scores as computed, given the rounding
HeuristicScores(valid_moves, exact, rounding) ==
    [k \in DOMAIN valid_moves |-> 2 * exact[k] + rounding[valid_moves[k].pos]]

\* heuristic.py play_move, lines 87-112: the candidate moves, the
\* possible-location set and the reveal turn it rests on.
HeuristicSetup(valid_moves, positions, possible, reveal) ==
    [valid_moves |-> valid_moves, possible |-> possible, reveal |-> reveal,
     exact |-> ExactScores(valid_moves, positions, possible)]

heuristic_setup(i, ps, history, tk, t) ==
    HeuristicSetup(heuristic_get_valid_moves(ps[i], tk[i], AllPositions(ps)),
                   AllPositions(ps), PossibleXLocations(t, history),
                   SelectedReveal(t, history))

\* heuristic.py play_move after the counter update, from its setup on.
heuristic_play_move(setup, tk, rounding) ==
    CallResult(setup.valid_moves, setup.possible, setup.reveal,
               HeuristicScores(setup.valid_moves, setup.exact, rounding),
               IF setup.valid_moves = <<>> THEN {NoMove}
               ELSE heuristic_choice(setup.valid_moves,
                        HeuristicScores(setup.valid_moves, setup.exact, rounding)),
               tk, {})

\* detectives.py play_move, lines 271-277: the moves the call may return.
search_choice(valid_moves, best_move) ==
    IF best_move # NoMove THEN {best_move} ELSE Range(valid_moves)

\* The real players as heap and roster: player j holds reference j + 1.
RealHeap(tk) == [r \in 1 .. NumPlayers |-> tk[r - 1]]

RealRoster(ps) == [j \in Players |-> [name |-> j, pos |-> ps[j], tickets |-> j + 1]]

RealTickets(heap) == [j \in Players |-> heap[j + 1]]

\* the ticket dicts made by  detective.tickets.copy()  during the search
Allocated(heap) == {heap[r] : r \in (NumPlayers + 1) .. Len(heap)}

SearchReturn(valid_moves, possible, reveal, found) ==
    CallResult(valid_moves, possible, reveal, <<>>,
               search_choice(valid_moves, found.move), RealTickets(found.heap),
               Allocated(found.heap))

SearchDecide(i, ps, tk, history, valid_moves, possible, reveal) ==
    IF valid_moves = <<>>
    THEN CallResult(valid_moves, possible, reveal, <<>>, {NoMove}, tk, {})
    ELSE SearchReturn(valid_moves, possible, reveal,
            alpha_beta_search(RealRoster(ps)[i], MAX_DEPTH, -INFINITY, INFINITY, TRUE,
                              possible, RealRoster(ps), valid_moves, history,
                              RealHeap(tk)))

\* detectives.py play_move after the counter update.
search_play_move(i, ps, tk, history, t) ==
    SearchDecide(i, ps, tk, history,
                 search_get_valid_moves(ps[i], tk[i], AllPositions(ps)),
                 PossibleXLocations(t, history), SelectedReveal(t, history))

\* mrx.py play_move in random mode: random.choice(boardmap[pos]["taxi"]), "taxi"
mrx_play_move(p) ==
    {[pos |-> boardmap[p]["taxi"][k], transport |-> "taxi"]
        : k \in DOMAIN boardmap[p]["taxi"]}

\* The candidate moves of Mr. X in random mode.
mrx_candidates(p) ==
    [k \in DOMAIN TransportList(p, "taxi") |->
        [pos |-> TransportList(p, "taxi")[k], transport |-> "taxi"]]

\* The counter update at the head of both detective play_move functions.
NextAgent(a) == (a + 1) % NumPlayers

NextTurn(t, a) == IF NextAgent(a) = 0 THEN t + 1 ELSE t

-----------------------------------------------------------------------------
(* The game: the engine advances one ply at a time, calling the due         *)
(* player's strategy with (player, full player list, history) and applying  *)
(* the move returned.                                                       *)

StartTickets(taxi) ==
    [k \in KindSet |-> IF k = "taxi" THEN taxi ELSE 1]

DetectiveStarts == {<<2, 4, 5, 7>>, <<1, 3, 6, 7>>}

Init ==
    /\ \E x \in Stations, ds \in DetectiveStarts :
          /\ x \notin Range(ds)
          /\ pos = [i \in Players |-> IF i = 0 THEN x ELSE ds[i]]
    /\ \E xt \in 1 .. MaxStartTaxi :
          tickets = [i \in Players |->
                        IF i = 0 THEN StartTickets(xt) ELSE StartTickets(3)]
    /\ x_history = <<>>
    /\ current = 0
    /\ round = 0
    /\ plies = 0
    /\ turn = InitialTurn
    /\ agent = InitialAgent
    /\ strategy \in {"heuristic", "search"}
    /\ halted = FALSE
    /\ lastCall = [kind |-> "init"]

\* What a ply records of the strategy call it made.
PlyRecord(kind, i, rnd, t, a, res, move) ==
    [kind |-> kind, mover |-> i, round |-> rnd, turn |-> t, agent |-> a,
     valid_moves |-> res.valid_moves, possible |-> res.possible,
     reveal |-> res.reveal, scores |-> res.scores, returns |-> res.returns,
     move |-> move,
     pos |-> pos, tickets |-> tickets, x_history |-> x_history,
     ticketsAfter |-> res.tickets, hypothetical |-> res.hypothetical]

\* Game Engine advanceTurn, after the strategy has returned  move : a missing
\* move is fatal; otherwise the mover's station is updated, the ticket of the
\* mode used is decremented, Mr. X's move is appended to the history and the
\* turn pointer advances.
EngineApply(i, tk, move) ==
    IF move = NoMove
    THEN /\ halted' = TRUE
         /\ tickets' = tk
         /\ UNCHANGED <<pos, x_history, current>>
    ELSE /\ pos' = [pos EXCEPT ![i] = move.pos]
         /\ tickets' = [tk EXCEPT ![i][move.transport] = @ - 1]
         /\ x_history' = IF i = 0 THEN Append(x_history, move) ELSE x_history
         /\ current' = (current + 1) % NumPlayers
         /\ UNCHANGED halted

MrXPly ==
    /\ ~halted
    /\ plies < MaxPlies
    /\ current = 0
    /\ \E move \in mrx_play_move(pos[0]) :
          /\ lastCall' = PlyRecord("mrx", 0, round + 1, turn, agent,
                                   [valid_moves |-> mrx_candidates(pos[0]),
                                    possible |-> {}, reveal |-> 0,
                                    scores |-> <<>>,
                                    returns |-> mrx_play_move(pos[0]),
                                    tickets |-> tickets, hypothetical |-> {}],
                                   move)
          /\ EngineApply(0, tickets, move)
    /\ round' = round + 1
    /\ plies' = plies + 1
    /\ UNCHANGED <<turn, agent, strategy>>

HeuristicPly ==
    /\ ~halted
    /\ plies < MaxPlies
    /\ current \in Detectives
    /\ strategy = "heuristic"
    /\ agent' = NextAgent(agent)
    /\ turn' = NextTurn(turn, agent)
    /\ \E setup \in {heuristic_setup(current, pos, x_history, tickets,
                                     NextTurn(turn, agent))} :
         \E res \in {heuristic_play_move(setup, tickets, rounding)
                       : rounding \in Roundings(setup.valid_moves, setup.possible)} :
           \E move \in res.returns :
              /\ lastCall' = PlyRecord("heuristic", current, round,
                                       NextTurn(turn, agent), NextAgent(agent),
                                       res, move)
              /\ EngineApply(current, res.tickets, move)
    /\ plies' = plies + 1
    /\ UNCHANGED <<round, strategy>>

SearchPly ==
    /\ ~halted
    /\ plies < MaxPlies
    /\ current \in Detectives
    /\ strategy = "search"
    /\ agent' = NextAgent(agent)
    /\ turn' = NextTurn(turn, agent)
    /\ \E res \in {search_play_move(current, pos, tickets, x_history,
                                    NextTurn(turn, agent))} :
           \E move \in res.returns :
              /\ lastCall' = PlyRecord("search", current, round,
                                       NextTurn(turn, agent), NextAgent(agent),
                                       res, move)
              /\ EngineApply(current, res.tickets, move)
    /\ plies' = plies + 1
    /\ UNCHANGED <<round, strategy>>

Next == MrXPly \/ HeuristicPly \/ SearchPly

Spec == Init /\ [][Next]_vars

-----------------------------------------------------------------------------
(* The functions on their own: every run applies one function once to       *)
(* inputs drawn at the start.  The inputs of a play_move call are a game    *)
(* position with one ply left to play; the inputs of the other calls are    *)
(* held in lastCall.                                                        *)

\* n moves of Mr. X shuttling by taxi between stations 1 and 2
Shuttle(n) ==
    [k \in 1 .. n |-> [pos |-> IF k % 2 = 1 THEN 2 ELSE 1, transport |-> "taxi"]]

ShortEntries ==
    {[pos |-> 2, transport |-> "taxi"],
     [pos |-> 4, transport |-> "bus"],
     [pos |-> 7, transport |-> "underground"]}

\* the histories of at most n entries drawn from ShortEntries
ShortHistories(n) == UNION {[1 .. k -> ShortEntries] : k \in 0 .. n}

\* player lists: Mr. X first, the detectives on pairwise distinct stations
Layouts ==
    {<<x>> \o ds : x \in {2, 3, 7}, ds \in {<<4, 2, 5, 6>>, <<1, 3, 6, 7>>, <<4, 5, 2, 1>>}}

AsPlayers(layout) == [i \in Players |-> layout[i + 1]]

\* ticket inventories: everybody has one of each, or the detectives are out
\* of taxi tickets
Inventories ==
    {[i \in Players |-> [k \in KindSet |-> IF k = "taxi" /\ i # 0 THEN taxi ELSE 1]]
        : taxi \in {0, 1}}

\* possible-location sets handed to the search
PossibleSets == {{}, {7}, {1, 7}, {4, 6}, {2, 3, 5}, Stations}

Quiet ==
    /\ round = 0
    /\ halted = FALSE
    /\ plies = MaxPlies
    /\ current = 1
    /\ turn = InitialTurn
    /\ agent = InitialAgent
    /\ strategy = "search"
    /\ pos = AsPlayers(<<3, 4, 2, 5, 6>>)
    /\ tickets = [i \in Players |-> StartTickets(1)]

InitLocations ==
    /\ Quiet
    /\ x_history \in ShortHistories(MaxEntries)
    /\ \E known \in Stations, n \in 0 .. Len(x_history) :
          lastCall = [kind |-> "locations_args", known |-> known, n |-> n]

InitPath ==
    /\ Quiet
    /\ x_history = <<>>
    /\ \E a \in Stations, b \in Stations :
          lastCall = [kind |-> "path_args", a |-> a, b |-> b]

InitSearch ==
    /\ round = 0
    /\ halted = FALSE
    /\ plies = MaxPlies
    /\ turn = InitialTurn
    /\ agent = InitialAgent
    /\ strategy = "search"
    /\ current \in Detectives
    /\ pos \in {AsPlayers(l) : l \in Layouts}
    /\ tickets = [i \in Players |-> StartTickets(1)]
    /\ x_history = <<>>
    /\ \E possible \in PossibleSets :
          lastCall = [kind |-> "search_args", possible |-> possible]

InitReveal ==
    /\ round = 0
    /\ halted = FALSE
    /\ plies = MaxPlies - 1
    /\ current = 1
    /\ turn \in 1 .. MaxTurn
    /\ agent = InitialAgent
    /\ strategy \in {"heuristic", "search"}
    /\ pos = AsPlayers(<<3, 4, 2, 5, 6>>)
    /\ tickets = [i \in Players |-> StartTickets(1)]
    /\ x_history \in {Shuttle(n) : n \in 0 .. MaxHistory}
    /\ lastCall = [kind |-> "init"]

InitPlay ==
    /\ round = 0
    /\ halted = FALSE
    /\ plies = MaxPlies - 1
    /\ current \in {0, 1, 2}
    /\ turn = 3
    /\ agent = InitialAgent
    /\ strategy \in {"heuristic", "search"}
    /\ pos \in {AsPlayers(l) : l \in Layouts}
    /\ tickets \in Inventories
    /\ x_history \in ShortHistories(MaxEntries)
    /\ lastCall = [kind |-> "init"]

InitFn == InitLocations \/ InitPath \/ InitSearch \/ InitReveal \/ InitPlay

CallLocations ==
    /\ lastCall.kind = "locations_args"
    /\ lastCall' = [kind |-> "locations", known |-> lastCall.known, n |-> lastCall.n,
                    result |-> get_possible_locations(x_history, lastCall.known,
                                                      lastCall.n)]
    /\ UNCHANGED <<pos, tickets, x_history, current, round, plies, turn, agent,
                   strategy, halted>>

CallPath ==
    /\ lastCall.kind = "path_args"
    /\ lastCall' = [kind |-> "path", a |-> lastCall.a, b |-> lastCall.b,
                    result |-> get_shortest_path_length(lastCall.a, lastCall.b)]
    /\ UNCHANGED <<pos, tickets, x_history, current, round, plies, turn, agent,
                   strategy, halted>>

\* what a search returns to its caller
Returned(found) == [score |-> found.score, move |-> found.move]

\* What a direct call of the search records: its inputs, what it returned
\* with and without the cut-offs, the real players' ticket dicts after the
\* call and the number of ticket dicts the call allocated.
SearchRecord(possible, valid_moves, found, full) ==
    [kind |-> "alpha_beta", mover |-> current, possible |-> possible,
     valid_moves |-> valid_moves, pos |-> pos, tickets |-> tickets,
     pruned |-> Returned(found), exhaustive |-> Returned(full),
     ticketsAfter |-> RealTickets(found.heap),
     hypothetical |-> Allocated(found.heap),
     copies |-> Len(found.heap) - NumPlayers]

CallSearch ==
    /\ lastCall.kind = "search_args"
    /\ \E valid_moves \in {search_get_valid_moves(pos[current], tickets[current],
                                                  AllPositions(pos))} :
         \E found \in {alpha_beta_search(RealRoster(pos)[current], MAX_DEPTH,
                            -INFINITY, INFINITY, TRUE, lastCall.possible,
                            RealRoster(pos), valid_moves, x_history,
                            RealHeap(tickets))} :
           \E full \in {exhaustive_search(RealRoster(pos)[current], MAX_DEPTH,
                            -INFINITY, INFINITY, TRUE, lastCall.possible,
                            RealRoster(pos), valid_moves, x_history,
                            RealHeap(tickets))} :
              lastCall' = SearchRecord(lastCall.possible, valid_moves, found, full)
    /\ UNCHANGED <<pos, tickets, x_history, current, round, plies, turn, agent,
                   strategy, halted>>

NextFn == CallLocations \/ CallPath \/ CallSearch \/ MrXPly \/ HeuristicPly \/ SearchPly

SpecFn == InitFn /\ [][NextFn]_vars

-----------------------------------------------------------------------------
(* Properties *)

DetectiveCall == lastCall.kind \in {"heuristic", "search"}

MovementKinds == {"taxi", "bus", "underground"}

\* C1: in a game run no ticket count of any player ever goes below zero.
TicketsNeverNegative ==
    \A i \in Players : \A k \in KindSet : tickets[i][k] >= 0

\* C2: starting from pairwise distinct detective stations, after any sequence
\* of plies no two detectives occupy the same station.
DetectivesDistinct ==
    \A i \in Detectives : \A j \in Detectives : i # j => pos[i] # pos[j]

\* C2 witness: a detective has moved although a station next to it, by a mode
\* it held a ticket for, was occupied by another detective.
DetectiveAvoidedDetective ==
    /\ DetectiveCall
    /\ lastCall.move # NoMove
    /\ \E j \in Detectives \ {lastCall.mover} : \E k \in MovementKinds :
          /\ lastCall.tickets[lastCall.mover][k] > 0
          /\ lastCall.pos[j]
               \in get_valid_transport_moves(lastCall.pos[lastCall.mover], k)

\* C3: whenever a detective of round r is deciding its move, the strategy's
\* turn counter equals r.
TurnCounterIsRound ==
    DetectiveCall => lastCall.turn = lastCall.round

\* C4: get_possible_locations(history, known, n) is the singleton {known}
\* expanded once per each of the last n history entries, in order.
LocationsAreNExpansions ==
    lastCall.kind = "locations" =>
        lastCall.result =
            Propagate({lastCall.known},
                      SubSeq(x_history, Len(x_history) - lastCall.n + 1,
                             Len(x_history)))

\* the schedule entry in force at turn t
ScheduleEntry(t) ==
    CASE t < 3 -> 0
      [] t >= 3 /\ t < 8 -> 3
      [] t >= 8 /\ t < 13 -> 8
      [] t >= 13 /\ t < 18 -> 13
      [] t >= 18 /\ t < 24 -> 18
      [] OTHER -> 24

RevealTable ==
    (1 :> 0) @@ (2 :> 0) @@ (3 :> 3) @@ (7 :> 3) @@ (8 :> 8) @@ (12 :> 8)
      @@ (24 :> 24) @@ (25 :> 24)

\* C5: play_move of both strategies reconstructs from the largest schedule
\* entry <= the turn counter, and from none (the set stays the whole board)
\* when the turn counter is below 3, the history is empty or has no entry at
\* index entry - 1; with a history long enough the turns 1, 2, 3, 7, 8, 12,
\* 24, 25 select none, none, 3, 3, 8, 8, 24, 24.
RevealSelection ==
    DetectiveCall /\ lastCall.valid_moves # <<>> =>
        /\ lastCall.reveal =
              IF \/ lastCall.turn < 3
                 \/ lastCall.x_history = <<>>
                 \/ ScheduleEntry(lastCall.turn) - 1 >= Len(lastCall.x_history)
              THEN 0 ELSE ScheduleEntry(lastCall.turn)
        /\ lastCall.reveal = 0 => lastCall.possible = Stations
        /\ lastCall.turn \in DOMAIN RevealTable /\ Len(lastCall.x_history) >= 24
              => lastCall.reveal = RevealTable[lastCall.turn]

\* C5 witness: at turn 25 a call has reconstructed from reveal turn 24.
RevealAtTurn25 ==
    /\ DetectiveCall
    /\ lastCall.valid_moves # <<>>
    /\ lastCall.turn = 25
    /\ lastCall.reveal = 24
    /\ lastCall.possible # Stations

\* C6: whenever the mover has a candidate move, play_move of each of the three
\* strategies returns one of the candidates.
AlwaysACandidate ==
    lastCall.kind \in {"mrx", "heuristic", "search"} /\ lastCall.valid_moves # <<>>
        => lastCall.move \in Range(lastCall.valid_moves)

\* C6 witness: a detective with candidates and an empty possible-location set
\* (every score equal) was given a candidate.
CandidateDespiteEmptySet ==
    /\ DetectiveCall
    /\ lastCall.possible = {}
    /\ Len(lastCall.valid_moves) >= 2
    /\ lastCall.move \in Range(lastCall.valid_moves)

\* C7: alpha_beta_search at depth 2 returns the move and the score of the
\* same recursion without the cut-offs.
PruningPreservesResult ==
    lastCall.kind = "alpha_beta" => lastCall.pruned = lastCall.exhaustive

\* C8: a station next to the deciding detective that Mr. X occupies and no
\* detective does is among the detective's candidate moves.
MrXStationIsCandidate ==
    DetectiveCall =>
        \A k \in MovementKinds :
            /\ lastCall.tickets[lastCall.mover][k] > 0
            /\ lastCall.pos[0]
                 \in get_valid_transport_moves(lastCall.pos[lastCall.mover], k)
            /\ \A j \in Detectives : lastCall.pos[j] # lastCall.pos[0]
            => [pos |-> lastCall.pos[0], transport |-> k]
                 \in Range(lastCall.valid_moves)

\* C9: get_shortest_path_length(a, b) is the number of edges of a shortest
\* path over the station-to-station links of the board, infinite if none.
PathLengthIsLinkDistance ==
    lastCall.kind = "path" =>
        lastCall.result = LinkPathTable[lastCall.a][lastCall.b]

\* C10: a call of alpha_beta_search, directly or through play_move, leaves
\* every ticket count of every player of the roster as it was before the call.
SearchLeavesPlayersUnchanged ==
    lastCall.kind \in {"search", "alpha_beta"} =>
        lastCall.ticketsAfter = lastCall.tickets

\* C10 witness: a search that built hypothetical players, each on a ticket
\* dict of its own, has returned.
SearchMadeCopies ==
    /\ lastCall.kind = "alpha_beta"
    /\ lastCall.copies >= 2
    /\ lastCall.pruned.move # NoMove

\* the indices of the candidates whose computed score is the maximum
BestIndices(scores) ==
    {k \in DOMAIN scores : \A j \in DOMAIN scores : scores[j] <= scores[k]}

\* C11: the heuristic play_move returns the first, in generation order, of
\* the candidates whose computed score is the maximum, and nothing else (the
\* random fallback is not taken).
TieGoesToFirst ==
    lastCall.kind = "heuristic" /\ lastCall.valid_moves # <<>> =>
        /\ lastCall.returns =
              {lastCall.valid_moves[Min(BestIndices(lastCall.scores))]}
        /\ lastCall.move \in lastCall.returns

\* C11 witness: two candidates to different stations had the same maximal
\* computed score, and the earlier one was returned.
TieWasBroken ==
    /\ lastCall.kind = "heuristic"
    /\ \E k \in BestIndices(lastCall.scores) :
          /\ k > Min(BestIndices(lastCall.scores))
          /\ lastCall.valid_moves[k].pos # lastCall.move.pos
    /\ lastCall.move = lastCall.valid_moves[Min(BestIndices(lastCall.scores))]

\* C12: in a game in which Mr. X has moved along board edges of the mode he
\* reported (and held a ticket for every move), whenever a detective's
\* play_move works from a reveal-based possible-location set, Mr. X's true
\* station is a member of that set.
MrXInRevealSet ==
    /\ DetectiveCall
    /\ lastCall.valid_moves # <<>>
    /\ lastCall.reveal # 0
    /\ \A k \in KindSet : lastCall.tickets[0][k] >= 0
    => lastCall.pos[0] \in lastCall.possible

\* C13: in the search play_move starts at depth 2 for a detective whose
\* ticket counts are all >= 0, every hypothetical detective constructed has
\* all ticket counts >= 0.
HypotheticalTicketsNonNegative ==
    /\ lastCall.kind = "search"
    /\ \A k \in KindSet : lastCall.tickets[lastCall.mover][k] >= 0
    => \A d \in lastCall.hypothetical : \A k \in KindSet : d[k] >= 0

=============================================================================
